---- MODULE Spec2Model ----
(***************************************************************************)
(* Model of the combinatorial purged cross-validation splitter             *)
(* (src/src/core/backtesting/cpcv_splitter.py): the CPCVSplitter           *)
(* constructor, the split generator driven one next() call at a time, and  *)
(* the three free filter functions apply_purging,                          *)
(* apply_time_based_purging and apply_embargo.                             *)
(*                                                                         *)
(* numpy index arrays are sequences of integers (position p of the data    *)
(* set is the value p; a sequence keeps the order and the duplicates an    *)
(* array may have).  Timestamps are integers (days).                       *)
(*                                                                         *)
(* Also modelled: the two RollingHorizonSplitter classes                   *)
(* (src/src/core/rolling_horizon_splitter.py, src/src/core/data_splitter.py)*)
(* and the life cycle of SimpleNN (src/src/models/neural_net/simple_nn.py):*)
(* fit, predict, predict_proba, save and load on two objects and one file. *)
(***************************************************************************)
EXTENDS Integers, Sequences, FiniteSets, TLC

(* ------------------------------ bounds --------------------------------- *)
MaxN == 5          \* dataset sizes 0..MaxN
MaxB == 4          \* n_blocks 0..MaxB, n_test_blocks -1..MaxB
MaxWindow == 1     \* purge_window, embargo_window in -MaxWindow..MaxWindow
MaxHold == 1       \* label holding periods t1 - t0 in 0..MaxHold
MaxPos == 3        \* filter inputs: positions 0..MaxPos-1
MaxLen == 2        \* filter inputs: arrays of length 0..MaxLen
MaxRollN == 7      \* rolling splitters: dataset sizes 0..MaxRollN
MaxBatch == 3      \* rolling splitters: batch_unit 0..MaxBatch
MaxHorizon == 2    \* rolling splitters: horizon 0..MaxHorizon
MaxCalls == 4      \* SimpleNN: method calls in one session

Windows == (0 - MaxWindow)..MaxWindow

(* --------------------------- array helpers ----------------------------- *)
Range(s) == {s[i] : i \in 1..Len(s)}

\* ndarray.min() / ndarray.max() of a non-empty array
SeqMin(s) == CHOOSE m \in Range(s) : \A x \in Range(s) : m <= x
SeqMax(s) == CHOOSE m \in Range(s) : \A x \in Range(s) : m >= x

\* np.arange(start, end), also range(n) as Arange(0, n)
Arange(start, end) ==
    IF end <= start THEN <<>> ELSE [i \in 1..(end - start) |-> start + i - 1]

\* Python's a // b for b # 0 (floor of the quotient)
PyFloorDiv(a, b) == IF b > 0 THEN a \div b ELSE (0 - a) \div (0 - b)

\* np.concatenate(list of arrays), list non-empty
RECURSIVE Concatenate(_)
Concatenate(arrays) ==
    IF Len(arrays) = 0 THEN <<>>
    ELSE Head(arrays) \o Concatenate(Tail(arrays))

\* the ascending array holding the elements of a finite set of integers
RECURSIVE SortedSeq(_)
SortedSeq(S) ==
    IF S = {} THEN <<>>
    ELSE LET m == CHOOSE x \in S : \A y \in S : x <= y
         IN  <<m>> \o SortedSeq(S \ {m})

\* the binomial coefficient, by Pascal's rule
RECURSIVE Binomial(_, _)
Binomial(n, k) ==
    IF k < 0 \/ k > n THEN 0
    ELSE IF k = 0 \/ k = n THEN 1
    ELSE Binomial(n - 1, k - 1) + Binomial(n - 1, k)

(* -------------------------- interval metadata -------------------------- *)
\* barrier_times=None
NoBarrier == [present |-> FALSE, t0 |-> <<>>, t1 |-> <<>>]

\* a DataFrame with columns t0, t1 and n rows; row of position p is index p+1
Barrier(n, stride, h_even, h_odd) ==
    [present |-> TRUE,
     t0 |-> [i \in 1..n |-> stride * (i - 1)],
     t1 |-> [i \in 1..n |-> stride * (i - 1)
                            + (IF (i - 1) % 2 = 0 THEN h_even ELSE h_odd)]]

\* t0 of consecutive rows: equal (ties) or one day apart
Strides == {0, 1}

BarrierTables(n) ==
    {Barrier(n, s, he, ho) : s \in Strides, he \in 0..MaxHold, ho \in 0..MaxHold}

(* ------------------------------ filters -------------------------------- *)
\* a filter either returns an array or raises
Returned(a) == [ok |-> TRUE, value |-> a, error |-> "none"]
Raised(e) == [ok |-> FALSE, value |-> <<>>, error |-> e]

\* mutant: strict comparison, a tie t1 = test_start is purged
apply_purging_strict(train, test, bt) ==
    IF test = <<>> THEN Returned(<<>>)
    ELSE LET test_start == SeqMin([k \in 1..Len(test) |-> bt.t0[test[k] + 1]])
         IN  Returned(SelectSeq(train, LAMBDA p : bt.t1[p + 1] < test_start))

\* apply_purging: min of an empty t0 column is NaT and every comparison
\* with NaT is False, so an empty test array purges everything
apply_purging(train, test, bt) ==
    IF test = <<>> THEN Returned(<<>>)
    ELSE LET test_start == SeqMin([k \in 1..Len(test) |-> bt.t0[test[k] + 1]])
         IN  Returned(SelectSeq(train, LAMBDA p : bt.t1[p + 1] <= test_start))

\* mutant: the threshold position itself is kept
apply_time_based_purging_incl(train, test, purge_window) ==
    IF test = <<>> THEN Raised("ValueError")
    ELSE LET purge_threshold == SeqMin(test) - purge_window
         IN  Returned(SelectSeq(train, LAMBDA p : p <= purge_threshold))

\* mutant: every position below the threshold, whether in train_idx or not
apply_time_based_purging_arange(train, test, purge_window) ==
    IF test = <<>> THEN Raised("ValueError")
    ELSE Returned(Arange(0, SeqMin(test) - purge_window))

\* mutant: positions more than purge_window after the test end are kept too
apply_time_based_purging_symmetric(train, test, purge_window) ==
    IF test = <<>> THEN Raised("ValueError")
    ELSE Returned(SelectSeq(train,
             LAMBDA p : (p < SeqMin(test) - purge_window)
                        \/ (p > SeqMax(test) + purge_window)))

\* apply_time_based_purging: test_idx.min() raises ValueError on an empty array
apply_time_based_purging(train, test, purge_window) ==
    IF test = <<>> THEN Raised("ValueError")
    ELSE LET test_start == SeqMin(test)
             purge_threshold == test_start - purge_window
         IN  Returned(SelectSeq(train, LAMBDA p : p < purge_threshold))

\* mutant: the threshold position itself is kept
apply_embargo_incl(train, test, embargo_window) ==
    IF test = <<>> THEN Raised("ValueError")
    ELSE LET embargo_threshold == SeqMax(test) + embargo_window
             test_start == SeqMin(test)
         IN  Returned(SelectSeq(train,
                 LAMBDA p : (p < test_start) \/ (p >= embargo_threshold)))

\* mutant: an empty test array is let through
apply_embargo_empty_ok(train, test, embargo_window) ==
    IF test = <<>> THEN Returned(train)
    ELSE LET embargo_threshold == SeqMax(test) + embargo_window
             test_start == SeqMin(test)
         IN  Returned(SelectSeq(train,
                 LAMBDA p : (p < test_start) \/ (p > embargo_threshold)))

\* mutant: the embargo is applied on both sides of the test block
apply_embargo_two_sided(train, test, embargo_window) ==
    IF test = <<>> THEN Raised("ValueError")
    ELSE LET embargo_threshold == SeqMax(test) + embargo_window
             test_start == SeqMin(test)
         IN  Returned(SelectSeq(train,
                 LAMBDA p : (p < test_start - embargo_window)
                            \/ (p > embargo_threshold)))

\* mutant: the result is rebuilt as a sorted array without duplicates
\* (np.setdiff1d)
apply_embargo_sorted(train, test, embargo_window) ==
    IF test = <<>> THEN Raised("ValueError")
    ELSE Returned(SortedSeq({p \in Range(train) :
                      (p < SeqMin(test)) \/ (p > SeqMax(test) + embargo_window)}))

\* mutant: the embargo drops the first embargo_window train positions that
\* come after the test end, however far they are from it
apply_embargo_by_count(train, test, embargo_window) ==
    IF test = <<>> THEN Raised("ValueError")
    ELSE LET before == SelectSeq(train, LAMBDA p : p < SeqMin(test))
             after == SelectSeq(train, LAMBDA p : p > SeqMax(test))
             drop == IF embargo_window < 0 THEN 0 ELSE embargo_window
         IN  Returned(before \o SubSeq(after, drop + 1, Len(after)))

\* apply_embargo: test_idx.max() raises ValueError on an empty array
apply_embargo(train, test, embargo_window) ==
    IF test = <<>> THEN Raised("ValueError")
    ELSE LET test_end == SeqMax(test)
             embargo_threshold == test_end + embargo_window
             test_start == SeqMin(test)
         IN  Returned(SelectSeq(train,
                 LAMBDA p : (p < test_start) \/ (p > embargo_threshold)))

(* ------------------------- CPCVSplitter.split -------------------------- *)
\* mutant: every block ends at (i+1)*block_size, the remainder is dropped
BlockIndices_no_remainder(n_samples, n_blocks) ==
    LET block_size == n_samples \div n_blocks
    IN  [k \in 1..n_blocks |-> Arange((k - 1) * block_size, k * block_size)]

\* mutant: balanced blocks, the first n_samples % n_blocks blocks get one
\* more position each (np.array_split)
BlockIndices_balanced(n_samples, n_blocks) ==
    LET block_size == n_samples \div n_blocks
        extra == n_samples % n_blocks
        start(i) == i * block_size + (IF i < extra THEN i ELSE extra)
    IN  [k \in 1..n_blocks |-> Arange(start(k - 1), start(k))]

\* lines 82-89: the blocks (block i is element i+1)
BlockIndices(n_samples, n_blocks) ==
    LET block_size == PyFloorDiv(n_samples, n_blocks)
    IN  [k \in 1..n_blocks |->
            Arange((k - 1) * block_size,
                   IF k - 1 < n_blocks - 1 THEN k * block_size ELSE n_samples)]

\* mutant: no tuple at all when r = n - 1
FirstComb_short(n, r) ==
    IF r >= n - 1 THEN [more |-> FALSE, indices |-> <<>>]
    ELSE [more |-> TRUE, indices |-> Arange(0, r)]

\* itertools.combinations(range(n), r), r >= 0: the first tuple
FirstComb(n, r) ==
    IF r > n THEN [more |-> FALSE, indices |-> <<>>]
    ELSE [more |-> TRUE, indices |-> Arange(0, r)]

\* mutant: the positions after the advanced one are not spread out
NextComb_flat(ind, n, r) ==
    LET movable == {i \in 1..r : ind[i] # (i - 1) + n - r}
    IN  IF movable = {} THEN [more |-> FALSE, indices |-> <<>>]
        ELSE LET i == CHOOSE m \in movable : \A x \in movable : m >= x
             IN  [more |-> TRUE,
                  indices |-> [j \in 1..r |->
                      IF j < i THEN ind[j] ELSE ind[i] + 1]]

\* itertools.combinations: the tuple after ind, if any
NextComb(ind, n, r) ==
    LET movable == {i \in 1..r : ind[i] # (i - 1) + n - r}
    IN  IF movable = {} THEN [more |-> FALSE, indices |-> <<>>]
        ELSE LET i == CHOOSE m \in movable : \A x \in movable : m >= x
             IN  [more |-> TRUE,
                  indices |-> [j \in 1..r |->
                      IF j < i THEN ind[j] ELSE ind[i] + 1 + (j - i)]]

\* mutant: only the first chosen block is tested
TestIdx_first(blocks, test_blocks) ==
    Concatenate([k \in 1..(IF Len(test_blocks) = 0 THEN 0 ELSE 1) |->
                    blocks[test_blocks[k] + 1]])

\* line 94: test_idx
TestIdx(blocks, test_blocks) ==
    Concatenate([k \in 1..Len(test_blocks) |-> blocks[test_blocks[k] + 1]])

\* mutant: the test blocks are not excluded
TrainBlocks_all(n_blocks, test_blocks) == Arange(0, n_blocks)

\* mutant: only the blocks after the last test block
TrainBlocks_after(n_blocks, test_blocks) ==
    SelectSeq(Arange(0, n_blocks),
              LAMBDA i : \A k \in 1..Len(test_blocks) : i > test_blocks[k])

\* line 97: train_blocks
TrainBlocks(n_blocks, test_blocks) ==
    SelectSeq(Arange(0, n_blocks), LAMBDA i : i \notin Range(test_blocks))

\* line 98: the candidate train_idx
CandidateTrainIdx(blocks, n_blocks, test_blocks) ==
    LET train_blocks == TrainBlocks(n_blocks, test_blocks)
    IN  Concatenate([k \in 1..Len(train_blocks) |-> blocks[train_blocks[k] + 1]])

\* mutant: the position-based purge is applied after the metadata purge
Purge_both(obj, train, test, bt) ==
    IF bt.present
    THEN apply_time_based_purging(apply_purging(train, test, bt).value,
                                  test, obj.purge_window)
    ELSE apply_time_based_purging(train, test, obj.purge_window)

\* mutant: without barrier_times nothing is purged
Purge_metadata_only(obj, train, test, bt) ==
    IF bt.present THEN apply_purging(train, test, bt)
    ELSE IF test = <<>> THEN Raised("ValueError")
    ELSE Returned(train)

\* lines 100-113: the purge chosen by the presence of barrier_times
Purge(obj, train, test, bt) ==
    IF bt.present THEN apply_purging(train, test, bt)
    ELSE apply_time_based_purging(train, test, obj.purge_window)

\* mutant: a fold whose train array came out empty raises
LoopBody_no_empty_train(obj, blocks, test_blocks, bt) ==
    LET test == TestIdx(blocks, test_blocks)
        cand == CandidateTrainIdx(blocks, obj.n_blocks, test_blocks)
        purged == Purge(obj, cand, test, bt)
        clean == apply_embargo(purged.value, test, obj.embargo_window)
        fail(e) == [ok |-> FALSE, error |-> e, test |-> <<>>, cand |-> <<>>,
                    purged |-> <<>>, train |-> <<>>]
    IN  IF Len(test_blocks) = 0 THEN fail("ValueError")
        ELSE IF ~purged.ok THEN fail(purged.error)
        ELSE IF ~clean.ok THEN fail(clean.error)
        ELSE IF clean.value = <<>> THEN fail("ValueError")
        ELSE [ok |-> TRUE, error |-> "none", test |-> test, cand |-> cand,
              purged |-> purged.value, train |-> clean.value]

\* lines 93-122: the body of the loop for one tuple of test blocks; the
\* locals at the yield, or the exception raised on the way
LoopBody(obj, blocks, test_blocks, bt) ==
    LET test == TestIdx(blocks, test_blocks)
        cand == CandidateTrainIdx(blocks, obj.n_blocks, test_blocks)
        purged == Purge(obj, cand, test, bt)
        clean == apply_embargo(purged.value, test, obj.embargo_window)
        fail(e) == [ok |-> FALSE, error |-> e, test |-> <<>>, cand |-> <<>>,
                    purged |-> <<>>, train |-> <<>>]
    IN  IF Len(test_blocks) = 0 THEN fail("ValueError")  \* np.concatenate([])
        ELSE IF ~purged.ok THEN fail(purged.error)
        ELSE IF ~clean.ok THEN fail(clean.error)
        ELSE [ok |-> TRUE, error |-> "none", test |-> test, cand |-> cand,
              purged |-> purged.value, train |-> clean.value]

\* lines 92-122: the folds the loop yields from the tuple comb on, until
\* the tuples are exhausted or a pass raises
RECURSIVE FoldsFrom(_, _, _, _)
FoldsFrom(comb, obj, blocks, bt) ==
    IF ~comb.more THEN <<>>
    ELSE LET r == LoopBody(obj, blocks, comb.indices, bt)
         IN  IF ~r.ok THEN <<>>
             ELSE <<[test_blocks |-> comb.indices, train |-> r.train,
                     test |-> r.test]>>
                  \o FoldsFrom(NextComb(comb.indices, obj.n_blocks,
                                        obj.n_test_blocks), obj, blocks, bt)

\* lines 81-122: everything one iteration of split(X, barrier_times) yields
\* for an object obj with n_blocks # 0 and n_test_blocks >= 0
AllFolds(obj, n, bt) ==
    FoldsFrom(FirstComb(obj.n_blocks, obj.n_test_blocks), obj,
              BlockIndices(n, obj.n_blocks), bt)

\* mutant: only n_test_blocks > n_blocks is rejected
CtorRejects_strict(n_blocks, n_test_blocks) == n_test_blocks > n_blocks

\* line 52: the only check of CPCVSplitter.__init__
CtorRejects(n_blocks, n_test_blocks) == n_test_blocks >= n_blocks

(* ------------------------------- state --------------------------------- *)
VARIABLES
    args,            \* the constructor arguments
    n_samples,       \* len(X)
    barrier_times,   \* the barrier_times argument of split
    pc,              \* "new", "ready", "yielded", "done", "ctor_error", "error"
    splitter,        \* the attributes of the constructed object
    block_indices,   \* the local block_indices of split
    indices,         \* the tuple the combinations iterator is at
    cand_idx,        \* the local train_idx at line 98 of the last fold
    purged_idx,      \* the local train_idx after the purge of the last fold
    train_idx,       \* the train array of the last fold yielded
    test_idx,        \* the test array of the last fold yielded
    yielded,         \* what the consumer has received so far
    error,           \* the exception raised, "none" if none
    run,             \* 1 for the first split(X, barrier_times) call, 2 for the second
    prev_yielded,    \* what the first call yielded, once the second has begun
    f_op,            \* filter call: "input", or the function that was applied
    f_train,         \* filter call: train_idx
    f_test,          \* filter call: test_idx
    f_window,        \* filter call: purge_window / embargo_window
    f_barrier,       \* filter call: barrier_times
    f_out,           \* filter call: the result
    roll_kind,       \* "index": core/rolling_horizon_splitter.py, "frame": core/data_splitter.py
    roll_args,       \* rolling splitter: the constructor arguments
    roll_n,          \* rolling splitter: len(X) / len(df)
    roll_pc,         \* "new", "ready", "yielded", "done", "error"
    roll_self,       \* rolling splitter: the attributes of the object
    current,         \* "index": the local current_end / current_start
    start_positions, \* "frame": the local start_positions
    fold_idx,        \* "frame": the local fold_idx
    roll_yielded,    \* rolling splitter: what the consumer has received
    roll_error,      \* rolling splitter: the exception raised, "none" if none
    nn,              \* SimpleNN objects: config, is_trained, model of each
    disk,            \* the file system: what torch.save wrote at each path
    nn_ret,          \* the last SimpleNN method call and how it ended
    nn_calls,        \* the number of SimpleNN method calls made so far
    completed        \* the objects on which a fit or a load has completed

split_vars == <<args, n_samples, barrier_times, pc, splitter, block_indices,
                indices, cand_idx, purged_idx, train_idx, test_idx, yielded, error,
                run, prev_yielded>>
filter_vars == <<f_op, f_train, f_test, f_window, f_barrier, f_out>>
roll_vars == <<roll_kind, roll_args, roll_n, roll_pc, roll_self, current,
               start_positions, fold_idx, roll_yielded, roll_error>>
nn_vars == <<nn, disk, nn_ret, nn_calls, completed>>
vars == <<args, n_samples, barrier_times, pc, splitter, block_indices,
          indices, cand_idx, purged_idx, train_idx, test_idx, yielded, error,
          run, prev_yielded,
          f_op, f_train, f_test, f_window, f_barrier, f_out,
          roll_kind, roll_args, roll_n, roll_pc, roll_self, current,
          start_positions, fold_idx, roll_yielded, roll_error,
          nn, disk, nn_ret, nn_calls, completed>>

NoObject == [n_blocks |-> 0, n_test_blocks |-> 0,
             purge_window |-> 0, embargo_window |-> 0]

NoRollObject == [batch_unit |-> 0, horizon |-> 0, latest_first |-> FALSE]

\* the value of nn_ret before any call
NoCall == [op |-> "none", obj |-> 0, path |-> "", error |-> "none",
           value |-> <<>>]

NNIdle ==
    /\ nn = <<>>
    /\ disk = <<>>
    /\ nn_ret = NoCall
    /\ nn_calls = 0
    /\ completed = {}

RollIdle ==
    /\ roll_kind = "idle"
    /\ roll_args = NoRollObject
    /\ roll_n = 0
    /\ roll_pc = "idle"
    /\ roll_self = NoRollObject
    /\ current = 0
    /\ start_positions = <<>>
    /\ fold_idx = 0
    /\ roll_yielded = <<>>
    /\ roll_error = "none"

FilterIdle ==
    /\ f_op = "idle"
    /\ f_train = <<>>
    /\ f_test = <<>>
    /\ f_window = 0
    /\ f_barrier = NoBarrier
    /\ f_out = Returned(<<>>)

SplitIdle ==
    /\ args = NoObject
    /\ n_samples = 0
    /\ barrier_times = NoBarrier
    /\ pc = "idle"
    /\ splitter = NoObject
    /\ block_indices = <<>>
    /\ indices = <<>>
    /\ cand_idx = <<>>
    /\ purged_idx = <<>>
    /\ train_idx = <<>>
    /\ test_idx = <<>>
    /\ yielded = <<>>
    /\ error = "none"
    /\ run = 1
    /\ prev_yielded = <<>>

(* ------------------ the splitter, one call at a time ------------------- *)
\* the configuration of tests/test_cpcv.py test_cpcv_basic
ScenarioA == [n_blocks |-> 5, n_test_blocks |-> 1,
              purge_window |-> 5, embargo_window |-> 3]
ScenarioASamples == 100

Init ==
    /\ \/ /\ args \in [n_blocks : 0..MaxB, n_test_blocks : (-1)..MaxB,
                       purge_window : Windows, embargo_window : Windows]
          /\ n_samples \in 0..MaxN
          /\ barrier_times \in {NoBarrier} \cup BarrierTables(n_samples)
       \/ /\ args \in [n_blocks : {-1}, n_test_blocks : {-2},
                       purge_window : Windows, embargo_window : Windows]
          /\ n_samples \in 0..MaxN
          /\ barrier_times = NoBarrier
       \/ /\ args = ScenarioA
          /\ n_samples = ScenarioASamples
          /\ barrier_times = NoBarrier
    /\ pc = "new"
    /\ splitter = NoObject
    /\ block_indices = <<>>
    /\ indices = <<>>
    /\ cand_idx = <<>>
    /\ purged_idx = <<>>
    /\ train_idx = <<>>
    /\ test_idx = <<>>
    /\ yielded = <<>>
    /\ error = "none"
    /\ run = 1
    /\ prev_yielded = <<>>
    /\ FilterIdle
    /\ RollIdle
    /\ NNIdle

\* CPCVSplitter.__init__
Construct ==
    /\ pc = "new"
    /\ IF CtorRejects(args.n_blocks, args.n_test_blocks)
       THEN /\ pc' = "ctor_error"
            /\ error' = "ValueError"
            /\ UNCHANGED splitter
       ELSE /\ pc' = "ready"
            /\ splitter' = args
            /\ UNCHANGED error
    /\ UNCHANGED <<args, n_samples, barrier_times, block_indices, indices,
                   cand_idx, purged_idx, train_idx, test_idx, yielded,
                   run, prev_yielded>>
    /\ UNCHANGED filter_vars
    /\ UNCHANGED roll_vars
    /\ UNCHANGED nn_vars

\* one pass of the loop body for the tuple comb, up to the yield
RunFold(comb, blocks) ==
    LET r == LoopBody(splitter, blocks, comb.indices, barrier_times)
    IN  IF ~comb.more
        THEN /\ pc' = "done"
             /\ UNCHANGED <<indices, cand_idx, purged_idx, train_idx, test_idx, yielded, error>>
        ELSE IF ~r.ok
        THEN /\ pc' = "error"
             /\ error' = r.error
             /\ indices' = comb.indices
             /\ UNCHANGED <<cand_idx, purged_idx, train_idx, test_idx, yielded>>
        ELSE /\ pc' = "yielded"
             /\ indices' = comb.indices
             /\ cand_idx' = r.cand
             /\ purged_idx' = r.purged
             /\ test_idx' = r.test
             /\ train_idx' = r.train
             /\ yielded' = Append(yielded,
                    [test_blocks |-> comb.indices,
                     train |-> r.train,
                     test |-> r.test])
             /\ UNCHANGED error

\* the first next() on split(X, barrier_times): lines 81-89, the creation
\* of the combinations iterator and the first pass of the loop
SplitStart ==
    /\ pc = "ready"
    /\ IF splitter.n_blocks = 0
       THEN /\ pc' = "error"
            /\ error' = "ZeroDivisionError"
            /\ UNCHANGED <<block_indices, indices, cand_idx, purged_idx,
                           train_idx, test_idx, yielded>>
       ELSE IF splitter.n_test_blocks < 0
       THEN /\ pc' = "error"
            /\ error' = "ValueError"
            /\ block_indices' = BlockIndices(n_samples, splitter.n_blocks)
            /\ UNCHANGED <<indices, cand_idx, purged_idx, train_idx, test_idx, yielded>>
       ELSE /\ block_indices' = BlockIndices(n_samples, splitter.n_blocks)
            /\ RunFold(FirstComb(splitter.n_blocks, splitter.n_test_blocks),
                       BlockIndices(n_samples, splitter.n_blocks))
    /\ UNCHANGED <<args, n_samples, barrier_times, splitter, run, prev_yielded>>
    /\ UNCHANGED filter_vars
    /\ UNCHANGED roll_vars
    /\ UNCHANGED nn_vars

\* a later next(): the generator resumes after the yield
SplitResume ==
    /\ pc = "yielded"
    /\ RunFold(NextComb(indices, splitter.n_blocks, splitter.n_test_blocks),
               block_indices)
    /\ UNCHANGED <<args, n_samples, barrier_times, splitter, block_indices,
                   run, prev_yielded>>
    /\ UNCHANGED filter_vars
    /\ UNCHANGED roll_vars
    /\ UNCHANGED nn_vars

\* the consumer, having exhausted the generator, calls
\* split(X, barrier_times) on the same object again: a new generator with
\* fresh locals; the object's attributes are not touched by split
SplitAgain ==
    /\ pc = "done"
    /\ run = 1
    /\ pc' = "ready"
    /\ run' = 2
    /\ prev_yielded' = yielded
    /\ yielded' = <<>>
    /\ block_indices' = <<>>
    /\ indices' = <<>>
    /\ cand_idx' = <<>>
    /\ purged_idx' = <<>>
    /\ train_idx' = <<>>
    /\ test_idx' = <<>>
    /\ UNCHANGED <<args, n_samples, barrier_times, splitter, error>>
    /\ UNCHANGED filter_vars
    /\ UNCHANGED roll_vars
    /\ UNCHANGED nn_vars

Next == Construct \/ SplitStart \/ SplitResume \/ SplitAgain

Spec == Init /\ [][Next]_vars

(* ---------------- the filter functions called directly ----------------- *)
\* arrays over the positions 0..MaxPos-1, any order, duplicates allowed
Arrays == UNION {[1..n -> 0..(MaxPos - 1)] : n \in 0..MaxLen}

\* the inputs of tests/test_cpcv.py test_purging and test_embargo
ScenarioB == [train |-> Arange(0, 50), test |-> Arange(50, 70), window |-> 0,
              barrier |-> Barrier(100, 1, 5, 5)]
ScenarioC == [train |-> Arange(0, 100), test |-> Arange(50, 70), window |-> 5,
              barrier |-> NoBarrier]

FilterInit ==
    /\ \/ /\ f_train \in Arrays
          /\ f_test \in Arrays
          /\ \/ f_window \in Windows /\ f_barrier = NoBarrier
             \/ f_window = 0 /\ f_barrier \in BarrierTables(MaxPos)
       \/ \E s \in {ScenarioB, ScenarioC} :
            /\ f_train = s.train
            /\ f_test = s.test
            /\ f_window = s.window
            /\ f_barrier = s.barrier
    /\ f_op = "input"
    /\ f_out = Returned(<<>>)
    /\ SplitIdle
    /\ RollIdle
    /\ NNIdle

ApplyPurging ==
    /\ f_op = "input"
    /\ f_barrier.present
    /\ f_op' = "apply_purging"
    /\ f_out' = apply_purging(f_train, f_test, f_barrier)
    /\ UNCHANGED <<f_train, f_test, f_window, f_barrier>>
    /\ UNCHANGED split_vars
    /\ UNCHANGED roll_vars
    /\ UNCHANGED nn_vars

ApplyTimeBasedPurging ==
    /\ f_op = "input"
    /\ f_op' = "apply_time_based_purging"
    /\ f_out' = apply_time_based_purging(f_train, f_test, f_window)
    /\ UNCHANGED <<f_train, f_test, f_window, f_barrier>>
    /\ UNCHANGED split_vars
    /\ UNCHANGED roll_vars
    /\ UNCHANGED nn_vars

ApplyEmbargo ==
    /\ f_op = "input"
    /\ f_op' = "apply_embargo"
    /\ f_out' = apply_embargo(f_train, f_test, f_window)
    /\ UNCHANGED <<f_train, f_test, f_window, f_barrier>>
    /\ UNCHANGED split_vars
    /\ UNCHANGED roll_vars
    /\ UNCHANGED nn_vars

FilterNext == ApplyPurging \/ ApplyTimeBasedPurging \/ ApplyEmbargo

FilterSpec == FilterInit /\ [][FilterNext]_vars

(* ---------------------- the rolling splitters -------------------------- *)
\* the most folds a legitimate iteration over MaxRollN rows can yield is
\* below this; it stops the loops that never end
MaxFolds == MaxRollN + 2

\* mutant: batch_unit is forgotten in the loop condition
LatestFits_no_batch(current_end, horizon, batch_unit) ==
    current_end - horizon >= 0

\* rolling_horizon_splitter.py line 67: the condition of the backward loop
LatestFits(current_end, horizon, batch_unit) ==
    current_end - horizon - batch_unit >= 0

\* mutant: a window ending exactly at n does not fit
OldestFits_strict(current_start, batch_unit, horizon, n) ==
    current_start + batch_unit + horizon < n

\* rolling_horizon_splitter.py line 83: the condition of the forward loop
OldestFits(current_start, batch_unit, horizon, n) ==
    current_start + batch_unit + horizon <= n

\* rolling_horizon_splitter.py lines 68-78: one pass of the backward loop,
\* with the value current_end takes after the yield
LatestFold(current_end, batch_unit, horizon) ==
    LET test_start == current_end - horizon
        test_end == current_end
        train_start == test_start - batch_unit
        train_end == test_start
    IN  [fold_idx |-> 0, start |-> train_start,
         train |-> Arange(train_start, train_end),
         test |-> Arange(test_start, test_end),
         next |-> train_start]

\* rolling_horizon_splitter.py lines 84-94: one pass of the forward loop,
\* with the value current_start takes after the yield
OldestFold(current_start, batch_unit, horizon) ==
    LET train_start == current_start
        train_end == current_start + batch_unit
        test_start == train_end
        test_end == test_start + horizon
    IN  [fold_idx |-> 0, start |-> train_start,
         train |-> Arange(train_start, train_end),
         test |-> Arange(test_start, test_end),
         next |-> test_end]

\* list(range(start, stop, step)) for step # 0
RECURSIVE PyRange(_, _, _)
PyRange(start, stop, step) ==
    IF (step > 0 /\ start < stop) \/ (step < 0 /\ start > stop)
    THEN <<start>> \o PyRange(start + step, stop, step)
    ELSE <<>>

\* mutant: the backward range stops before position 0
StartPositions_stop0(total_size, window_size, horizon, latest_first) ==
    IF latest_first
    THEN PyRange(total_size - window_size, 0, 0 - horizon)
    ELSE PyRange(0, total_size - window_size + 1, horizon)

\* data_splitter.py lines 93-106: start_positions, horizon # 0
StartPositions(total_size, window_size, horizon, latest_first) ==
    IF latest_first
    THEN PyRange(total_size - window_size, -1, 0 - horizon)
    ELSE PyRange(0, total_size - window_size + 1, horizon)

\* the positions of df.iloc[a:b] in a frame of n rows (Python slicing:
\* a negative bound counts from the end, bounds are clipped to 0..n)
ILocSlice(a, b, n) ==
    LET norm(x) == IF x < 0 THEN (IF x + n < 0 THEN 0 ELSE x + n)
                   ELSE (IF x > n THEN n ELSE x)
    IN  Arange(norm(a), norm(b))

\* data_splitter.py lines 109-118: the fold of the k-th start position
FrameFold(k, start, batch_unit, horizon, n) ==
    LET train_start == start
        train_end == start + batch_unit
        test_start == train_end
        test_end == train_end + horizon
    IN  [fold_idx |-> k, start |-> train_start,
         train |-> ILocSlice(train_start, train_end, n),
         test |-> ILocSlice(test_start, test_end, n)]

\* the arguments of the spec's rolling scenario: N=210, batch_unit=200,
\* horizon=5, latest_first
ScenarioD == [batch_unit |-> 200, horizon |-> 5, latest_first |-> TRUE]
ScenarioDSamples == 210

RollInit ==
    /\ roll_kind \in {"index", "frame"}
    /\ \/ /\ roll_args \in [batch_unit : 0..MaxBatch, horizon : 0..MaxHorizon,
                            latest_first : BOOLEAN]
          /\ roll_n \in 0..MaxRollN
       \/ /\ roll_args = ScenarioD
          /\ roll_n = ScenarioDSamples
    /\ roll_pc = "new"
    /\ roll_self = NoRollObject
    /\ current = 0
    /\ start_positions = <<>>
    /\ fold_idx = 0
    /\ roll_yielded = <<>>
    /\ roll_error = "none"
    /\ SplitIdle
    /\ FilterIdle
    /\ NNIdle

\* RollingHorizonSplitter.__init__ of either class: nothing is checked
RollConstruct ==
    /\ roll_pc = "new"
    /\ roll_pc' = "ready"
    /\ roll_self' = roll_args
    /\ UNCHANGED <<roll_kind, roll_args, roll_n, current, start_positions,
                   fold_idx, roll_yielded, roll_error>>
    /\ UNCHANGED split_vars
    /\ UNCHANGED filter_vars
    /\ UNCHANGED nn_vars

\* rolling_horizon_splitter.py: the loop from its condition to the yield,
\* current_end / current_start being cur
IndexLoop(cur) ==
    IF roll_self.latest_first
    THEN IF LatestFits(cur, roll_self.horizon, roll_self.batch_unit)
         THEN LET f == LatestFold(cur, roll_self.batch_unit, roll_self.horizon)
              IN  /\ roll_pc' = "yielded"
                  /\ current' = cur
                  /\ roll_yielded' = Append(roll_yielded,
                         [fold_idx |-> f.fold_idx, start |-> f.start,
                          train |-> f.train, test |-> f.test])
         ELSE /\ roll_pc' = "done"
              /\ current' = cur
              /\ UNCHANGED roll_yielded
    ELSE IF OldestFits(cur, roll_self.batch_unit, roll_self.horizon, roll_n)
         THEN LET f == OldestFold(cur, roll_self.batch_unit, roll_self.horizon)
              IN  /\ roll_pc' = "yielded"
                  /\ current' = cur
                  /\ roll_yielded' = Append(roll_yielded,
                         [fold_idx |-> f.fold_idx, start |-> f.start,
                          train |-> f.train, test |-> f.test])
         ELSE /\ roll_pc' = "done"
              /\ current' = cur
              /\ UNCHANGED roll_yielded

\* rolling_horizon_splitter.py: the first next() on split(X)
IndexStart ==
    /\ roll_kind = "index"
    /\ roll_pc = "ready"
    /\ IndexLoop(IF roll_self.latest_first THEN roll_n ELSE 0)
    /\ UNCHANGED <<roll_kind, roll_args, roll_n, roll_self, start_positions,
                   fold_idx, roll_error>>
    /\ UNCHANGED split_vars
    /\ UNCHANGED filter_vars
    /\ UNCHANGED nn_vars

\* rolling_horizon_splitter.py: a later next(): line 78 / 94, then the loop
IndexResume ==
    /\ roll_kind = "index"
    /\ roll_pc = "yielded"
    /\ Len(roll_yielded) < MaxFolds
    /\ IndexLoop(IF roll_self.latest_first
                 THEN LatestFold(current, roll_self.batch_unit,
                                 roll_self.horizon).next
                 ELSE OldestFold(current, roll_self.batch_unit,
                                 roll_self.horizon).next)
    /\ UNCHANGED <<roll_kind, roll_args, roll_n, roll_self, start_positions,
                   fold_idx, roll_error>>
    /\ UNCHANGED split_vars
    /\ UNCHANGED filter_vars
    /\ UNCHANGED nn_vars

\* data_splitter.py: the pass of the for loop for the k-th start position
FrameLoop(starts, k) ==
    IF k > Len(starts)
    THEN /\ roll_pc' = "done"
         /\ UNCHANGED <<fold_idx, roll_yielded>>
    ELSE /\ roll_pc' = "yielded"
         /\ fold_idx' = k
         /\ roll_yielded' = Append(roll_yielded,
                FrameFold(k, starts[k], roll_self.batch_unit,
                          roll_self.horizon, roll_n))

\* data_splitter.py: the first next() on split(df): lines 83-106 and the
\* first pass of the loop
FrameStart ==
    /\ roll_kind = "frame"
    /\ roll_pc = "ready"
    /\ LET total_size == roll_n
           window_size == roll_self.batch_unit + roll_self.horizon
       IN  IF total_size < window_size
           THEN /\ roll_pc' = "error"
                /\ roll_error' = "ValueError"
                /\ UNCHANGED <<start_positions, fold_idx, roll_yielded>>
           ELSE IF roll_self.horizon = 0      \* range() arg 3 must not be zero
           THEN /\ roll_pc' = "error"
                /\ roll_error' = "ValueError"
                /\ UNCHANGED <<start_positions, fold_idx, roll_yielded>>
           ELSE /\ start_positions' =
                      StartPositions(total_size, window_size,
                                     roll_self.horizon, roll_self.latest_first)
                /\ FrameLoop(StartPositions(total_size, window_size,
                                roll_self.horizon, roll_self.latest_first), 1)
                /\ UNCHANGED roll_error
    /\ UNCHANGED <<roll_kind, roll_args, roll_n, roll_self, current>>
    /\ UNCHANGED split_vars
    /\ UNCHANGED filter_vars
    /\ UNCHANGED nn_vars

\* data_splitter.py: a later next()
FrameResume ==
    /\ roll_kind = "frame"
    /\ roll_pc = "yielded"
    /\ FrameLoop(start_positions, fold_idx + 1)
    /\ UNCHANGED <<roll_kind, roll_args, roll_n, roll_self, current,
                   start_positions, roll_error>>
    /\ UNCHANGED split_vars
    /\ UNCHANGED filter_vars
    /\ UNCHANGED nn_vars

RollNext ==
    RollConstruct \/ IndexStart \/ IndexResume \/ FrameStart \/ FrameResume

RollSpec == RollInit /\ [][RollNext]_vars

\* the consumer iterates to exhaustion: for loop over split(X)
RollFairSpec == RollInit /\ [][RollNext]_vars /\ WF_vars(RollNext)

\* both: a splitter session or a direct filter call
FullInit == Init \/ FilterInit
FullNext == Next \/ FilterNext
FullSpec == FullInit /\ [][FullNext]_vars

(* ------------------------------ SimpleNN ------------------------------- *)
\* The parameters of a network (its state_dict tensors) are abstracted to
\* their shapes and one integer w standing for their values; a feature row
\* is abstracted to its width and one integer x.

\* model and model_loaded of tests/test_simple_nn.py
Models == {1, 2}

\* save_path of tests/test_simple_nn.py
Paths == {"models/test_simple_nn.pth"}

\* X.shape[1]
Features == {1, 2}

\* the value a row stands for
Rows == {0, 1}

\* two distinguishable values of the parameters
Weights == {0, 1}

\* config["architecture"] of two configurations: one hidden layer, none
Configs == {[hidden_dims |-> <<2>>, output_dim |-> 3],
            [hidden_dims |-> <<>>, output_dim |-> 3]}

\* self.model = None
NoModel == [built |-> FALSE, input_dim |-> 0, hidden_dims |-> <<>>,
            output_dim |-> 0, w |-> 0, training |-> FALSE]

\* no file at a path
NoFile == [exists |-> FALSE, state |-> [shapes |-> <<>>, w |-> 0],
           config |-> [hidden_dims |-> <<>>, output_dim |-> 0]]

\* SimpleNNArchitecture(input_dim, hidden_dims, output_dim, dropout): a new
\* module is in training mode and its parameters are freshly drawn (w0)
SimpleNNArchitecture(input_dim, hidden_dims, output_dim, w0) ==
    [built |-> TRUE, input_dim |-> input_dim, hidden_dims |-> hidden_dims,
     output_dim |-> output_dim, w |-> w0, training |-> TRUE]

\* the shapes (out, in) of network.0.weight, network.3.weight, ...: one
\* nn.Linear per hidden layer and the output layer
LayerShapes(m) ==
    LET dims == <<m.input_dim>> \o m.hidden_dims \o <<m.output_dim>>
    IN  [k \in 1..(Len(dims) - 1) |-> <<dims[k + 1], dims[k]>>]

\* self.model.state_dict()
state_dict(m) == [shapes |-> LayerShapes(m), w |-> m.w]

\* mutant: the tensors of the checkpoint are not copied into the network
load_state_dict_skip(m, sd) == [ok |-> TRUE, model |-> m]

\* self.model.load_state_dict(sd): strict, a shape mismatch raises
load_state_dict(m, sd) ==
    IF sd.shapes = LayerShapes(m)
    THEN [ok |-> TRUE, model |-> [m EXCEPT !.w = sd.w]]
    ELSE [ok |-> FALSE, model |-> m]

\* torch.argmax(self.model(X_tensor), dim=1) in eval mode: a function of
\* the parameters and the row alone
Forward(m, x) == (m.w + x) % m.output_dim

\* _build_model(input_dim)
_build_model(obj, input_dim, w0) ==
    [obj EXCEPT !.model = SimpleNNArchitecture(input_dim, obj.config.hidden_dims,
                                               obj.config.output_dim, w0)]

\* SimpleNN.__init__(config)
SimpleNN(config) == [config |-> config, is_trained |-> FALSE, model |-> NoModel]

\* the arguments of fit: the width of X_train, whether it has rows, whether
\* every label of y_train is one of -1, 0, 1
FitInputs == {X \in [n_features : Features, n_rows : 0..1, labels_ok : BOOLEAN] :
                 X.n_rows > 0 \/ X.labels_ok}

\* the argument of predict and predict_proba
TestInputs == [n_features : Features, x : Rows]

\* what an empty X_train raises, by the version of torch: ValueError from
\* the shuffling DataLoader, or ZeroDivisionError at total_loss / 0
EmptyErrors == {"ValueError", "ZeroDivisionError"}

\* a method either returns a value or raises; obj is the object afterwards
Outcome(obj, e, v) == [obj |-> obj, error |-> e, value |-> v]

\* mutant: is_trained is set before the training loop
fit_flag_first(obj, X, w0, w1, e0) ==
    LET built == IF obj.model.built THEN obj
                 ELSE _build_model(obj, X.n_features, w0)
        flagged == [built EXCEPT !.is_trained = TRUE]
        inloop == [flagged EXCEPT !.model.training = TRUE]
    IN  IF X.n_rows = 0
        THEN Outcome(IF e0 = "ValueError" THEN flagged ELSE inloop, e0, <<>>)
        ELSE IF X.n_features # built.model.input_dim
        THEN Outcome(inloop, "RuntimeError: shapes", <<>>)
        ELSE IF ~X.labels_ok
        THEN Outcome([inloop EXCEPT !.model.w = w1], "IndexError", <<>>)
        ELSE Outcome([inloop EXCEPT !.model.w = w1], "none", <<>>)

\* SimpleNN.fit(X_train, y_train): w0 the parameters a new network is
\* drawn with, w1 the parameters after the optimizer steps, e0 the error
\* an empty X_train raises
fit(obj, X, w0, w1, e0) ==
    LET built == IF obj.model.built THEN obj
                 ELSE _build_model(obj, X.n_features, w0)
        inloop == [built EXCEPT !.model.training = TRUE]
    IN  IF X.n_rows = 0
        THEN Outcome(IF e0 = "ValueError" THEN built ELSE inloop, e0, <<>>)
        ELSE IF X.n_features # built.model.input_dim
        THEN Outcome(inloop, "RuntimeError: shapes", <<>>)
        ELSE IF ~X.labels_ok
        THEN Outcome([inloop EXCEPT !.model.w = w1], "IndexError", <<>>)
        ELSE Outcome([inloop EXCEPT !.model.w = w1, !.is_trained = TRUE],
                     "none", <<>>)

\* mutant: no is_trained check, self.model.eval() on None raises
predict_unchecked(obj, X) ==
    IF ~obj.model.built THEN Outcome(obj, "AttributeError", <<>>)
    ELSE LET evald == [obj EXCEPT !.model.training = FALSE]
         IN  IF X.n_features # obj.model.input_dim
             THEN Outcome(evald, "RuntimeError: shapes", <<>>)
             ELSE Outcome(evald, "none", <<Forward(obj.model, X.x) - 1>>)

\* SimpleNN.predict(X_test)
predict(obj, X) ==
    IF ~obj.is_trained THEN Outcome(obj, "RuntimeError: untrained", <<>>)
    ELSE LET evald == [obj EXCEPT !.model.training = FALSE]
         IN  IF X.n_features # obj.model.input_dim
             THEN Outcome(evald, "RuntimeError: shapes", <<>>)
             ELSE Outcome(evald, "none", <<Forward(obj.model, X.x) - 1>>)

\* SimpleNN.predict_proba(X_test): the shape of the result and the class
\* of the largest probability
predict_proba(obj, X) ==
    IF ~obj.is_trained THEN Outcome(obj, "RuntimeError: untrained", <<>>)
    ELSE LET evald == [obj EXCEPT !.model.training = FALSE]
         IN  IF X.n_features # obj.model.input_dim
             THEN Outcome(evald, "RuntimeError: shapes", <<>>)
             ELSE Outcome(evald, "none",
                          <<1, obj.model.output_dim, Forward(obj.model, X.x)>>)

\* what SimpleNN.save(path) leaves at path
Checkpoint(obj) ==
    [exists |-> TRUE, state |-> state_dict(obj.model), config |-> obj.config]

\* SimpleNN.save(path): the files afterwards, and the error
save(obj, path, files) ==
    IF ~obj.is_trained
    THEN [files |-> files, error |-> "RuntimeError: untrained"]
    ELSE [files |-> [files EXCEPT ![path] = Checkpoint(obj)], error |-> "none"]

\* SimpleNN.load(path): w0 the parameters the rebuilt network is drawn with
load(obj, path, files, w0) ==
    LET checkpoint == files[path]
        configured == [obj EXCEPT !.config = checkpoint.config]
        input_dim == checkpoint.state.shapes[1][2]
        built == _build_model(configured, input_dim, w0)
        loaded == load_state_dict(built.model, checkpoint.state)
    IN  IF ~checkpoint.exists THEN Outcome(obj, "FileNotFoundError", <<>>)
        ELSE IF ~loaded.ok THEN Outcome(built, "RuntimeError: state_dict", <<>>)
        ELSE Outcome([built EXCEPT !.model = loaded.model, !.is_trained = TRUE],
                     "none", <<>>)

\* two objects from SimpleNN(config), nothing saved yet
NNInit ==
    /\ nn \in [Models -> {SimpleNN(c) : c \in Configs}]
    /\ disk = [p \in Paths |-> NoFile]
    /\ nn_ret = NoCall
    /\ nn_calls = 0
    /\ completed = {}
    /\ SplitIdle
    /\ FilterIdle
    /\ RollIdle

\* the bookkeeping of a call of op on object i that ended as r
Called(op, i, path, r) ==
    /\ nn_calls < MaxCalls
    /\ nn_calls' = nn_calls + 1
    /\ nn_ret' = [op |-> op, obj |-> i, path |-> path, error |-> r.error,
                  value |-> r.value]
    /\ completed' = IF op \in {"fit", "load"} /\ r.error = "none"
                    THEN completed \cup {i} ELSE completed
    /\ UNCHANGED split_vars
    /\ UNCHANGED filter_vars
    /\ UNCHANGED roll_vars

Fit(i) ==
    \E X \in FitInputs :
      \E w0 \in (IF nn[i].model.built THEN {nn[i].model.w} ELSE Weights) :
      \E w1 \in (IF X.n_rows = 0 THEN {w0} ELSE Weights) :
      \E e0 \in (IF X.n_rows = 0 THEN EmptyErrors ELSE {"none"}) :
        LET r == fit(nn[i], X, w0, w1, e0)
        IN  /\ nn' = [nn EXCEPT ![i] = r.obj]
            /\ UNCHANGED disk
            /\ Called("fit", i, "", r)

Predict(i) ==
    \E X \in TestInputs :
        LET r == predict(nn[i], X)
        IN  /\ nn' = [nn EXCEPT ![i] = r.obj]
            /\ UNCHANGED disk
            /\ Called("predict", i, "", r)

PredictProba(i) ==
    \E X \in TestInputs :
        LET r == predict_proba(nn[i], X)
        IN  /\ nn' = [nn EXCEPT ![i] = r.obj]
            /\ UNCHANGED disk
            /\ Called("predict_proba", i, "", r)

Save(i) ==
    \E path \in Paths :
        LET r == save(nn[i], path, disk)
        IN  /\ disk' = r.files
            /\ UNCHANGED nn
            /\ Called("save", i, path, [error |-> r.error, value |-> <<>>])

Load(i) ==
    \E path \in Paths :
      \E w0 \in (IF disk[path].exists THEN Weights ELSE {0}) :
        LET r == load(nn[i], path, disk, w0)
        IN  /\ nn' = [nn EXCEPT ![i] = r.obj]
            /\ UNCHANGED disk
            /\ Called("load", i, path, r)

NNNext ==
    \E i \in Models : Fit(i) \/ Predict(i) \/ PredictProba(i) \/ Save(i) \/ Load(i)

NNSpec == NNInit /\ [][NNNext]_vars

(* ------------------------------ properties ----------------------------- *)
\* a fold has just been yielded: the fold variables hold its arrays
AtYield == pc = "yielded"

\* lines 81-89 have run
BlocksBuilt == pc \in {"yielded", "done", "error"} /\ error # "ZeroDivisionError"

\* the positions of the blocks whose indices are in the set bs
BlockUnion(bs) == UNION {Range(block_indices[b + 1]) : b \in bs}

\* the sum of the lengths of the blocks whose indices are in the set bs
RECURSIVE BlockSizeSum(_)
BlockSizeSum(bs) ==
    IF bs = {} THEN 0
    ELSE LET b == CHOOSE x \in bs : TRUE
         IN  Len(block_indices[b + 1]) + BlockSizeSum(bs \ {b})

\* C1: in every fold yielded by split the train array and the test array
\* have no position in common, whatever the windows and with or without
\* barrier_times.
C1_TrainTestDisjoint ==
    /\ AtYield => Range(train_idx) \cap Range(test_idx) = {}
    /\ \A k \in 1..Len(yielded) :
          Range(yielded[k].train) \cap Range(yielded[k].test) = {}

C1_Witness ==
    /\ AtYield
    /\ barrier_times.present
    /\ splitter.n_test_blocks = 2
    /\ splitter.embargo_window < 0
    /\ Len(train_idx) > 0

\* C2: in every fold yielded by split no train position p satisfies
\* min(test) <= p <= max(test) + embargo_window, also when the test blocks
\* are not adjacent.
C2_EmbargoCorrect ==
    AtYield =>
        \A p \in Range(train_idx) :
            ~(SeqMin(test_idx) <= p /\ p <= SeqMax(test_idx) + splitter.embargo_window)

C2_Witness ==
    /\ AtYield
    /\ indices = <<0, 2>>
    /\ splitter.embargo_window > 0
    /\ \E p \in Range(purged_idx) : p > SeqMin(test_idx) /\ p < SeqMax(test_idx)
    /\ \E p \in Range(purged_idx) :
          p = SeqMax(test_idx) + splitter.embargo_window /\ p \notin Range(train_idx)
    /\ Len(train_idx) > 0

\* C3: apply_purging returns exactly the train positions p whose t1[p] is
\* not after the t0 of any test position (t1[p] <= min t0 over the test
\* positions): a tie is retained, a later t1 is removed.  With t0[i] = i,
\* t1 = t0 + 5 and test 50..69 the train positions 0..49 are cut to 0..45.
C3_PurgingExact ==
    (f_op = "apply_purging" /\ f_test # <<>>) =>
        /\ f_out.ok
        /\ Range(f_out.value) =
              {p \in Range(f_train) :
                  \A q \in Range(f_test) : f_barrier.t1[p + 1] <= f_barrier.t0[q + 1]}
        /\ (f_train = ScenarioB.train /\ f_test = ScenarioB.test
               /\ f_barrier = ScenarioB.barrier)
             => f_out.value = Arange(0, 46)

C3_Witness ==
    /\ f_op = "apply_purging"
    /\ f_test # <<>>
    /\ \E p \in Range(f_out.value) : \E q \in Range(f_test) :
          f_barrier.t1[p + 1] = f_barrier.t0[q + 1]
    /\ \E p \in Range(f_train) : p \notin Range(f_out.value)
    /\ Len(f_train) <= MaxLen

\* C4: apply_time_based_purging returns exactly the train positions p with
\* p < min(test) - purge_window (p = min(test) - purge_window is removed),
\* and without barrier_times this is the purge split applies to the
\* candidate train array of a fold.
C4_TimePurgingExact ==
    /\ (f_op = "apply_time_based_purging" /\ f_test # <<>>) =>
          /\ f_out.ok
          /\ Range(f_out.value) =
                {p \in Range(f_train) :
                    \A q \in Range(f_test) : p < q - f_window}
    /\ (AtYield /\ ~barrier_times.present) =>
          Range(purged_idx) =
              {p \in Range(cand_idx) :
                  \A q \in Range(test_idx) : p < q - splitter.purge_window}

C4_Witness ==
    /\ f_op = "apply_time_based_purging"
    /\ f_test # <<>>
    /\ (SeqMin(f_test) - f_window) \in Range(f_train)
    /\ (SeqMin(f_test) - f_window - 1) \in Range(f_out.value)

\* C5: apply_embargo returns exactly the train positions p with
\* p < min(test) or p > max(test) + embargo_window: positions before the
\* test start are all kept, p = max(test) + embargo_window is removed,
\* p = max(test) + embargo_window + 1 is kept.  Train 0..99, test 50..69,
\* embargo_window 5 leaves 0..49 and 75..99.
C5_EmbargoExact ==
    (f_op = "apply_embargo" /\ f_test # <<>>) =>
        /\ f_out.ok
        /\ Range(f_out.value) =
              {p \in Range(f_train) :
                  \/ \A q \in Range(f_test) : p < q
                  \/ \A q \in Range(f_test) : p > q + f_window}
        /\ (f_train = ScenarioC.train /\ f_test = ScenarioC.test
               /\ f_window = ScenarioC.window)
             => f_out.value = Arange(0, 50) \o Arange(75, 100)

C5_Witness ==
    /\ f_op = "apply_embargo"
    /\ f_test # <<>>
    /\ f_window > 0
    /\ (SeqMax(f_test) + f_window) \in Range(f_train)
    /\ (SeqMax(f_test) + f_window) \notin Range(f_out.value)
    /\ (SeqMax(f_test) + f_window + 1) \in Range(f_out.value)

\* C6: each of the three filters returns a subset of its train_idx, never
\* longer than train_idx, so the train array of a yielded fold is a subset
\* of the union of the fold's non-test blocks.
C6_FiltersShrink ==
    /\ (f_op \in {"apply_purging", "apply_time_based_purging", "apply_embargo"}
           /\ f_out.ok) =>
          /\ Range(f_out.value) \subseteq Range(f_train)
          /\ Len(f_out.value) <= Len(f_train)
    /\ AtYield =>
          /\ Range(train_idx) \subseteq
                BlockUnion({b \in 0..(splitter.n_blocks - 1) : b \notin Range(indices)})
          /\ Len(train_idx) <= Len(purged_idx)
          /\ Len(purged_idx) <= Len(cand_idx)

C6_Witness ==
    /\ f_op = "apply_time_based_purging"
    /\ f_out.ok
    /\ Len(f_out.value) = 1
    /\ Len(f_train) = 2
    /\ f_window < 0

\* C7: for N >= n_blocks >= 1 the blocks built by split are contiguous
\* half-open ranges that partition [0, N): every position is in exactly
\* one block and no block holds anything else.
C7_BlocksPartition ==
    (BlocksBuilt /\ splitter.n_blocks >= 1 /\ n_samples >= splitter.n_blocks) =>
        /\ Len(block_indices) = splitter.n_blocks
        /\ \A k \in 1..Len(block_indices) :
              \E a \in 0..n_samples : \E b \in a..n_samples :
                  block_indices[k] = Arange(a, b)
        /\ \A p \in 0..(n_samples - 1) :
              Cardinality({k \in 1..Len(block_indices) :
                              p \in Range(block_indices[k])}) = 1
        /\ BlockUnion(0..(splitter.n_blocks - 1)) = 0..(n_samples - 1)

C7_Witness ==
    /\ AtYield
    /\ splitter.n_blocks = 3
    /\ n_samples % splitter.n_blocks = 2

\* C8 as stated: for N >= B >= 1 every block has floor(N/B) or ceil(N/B)
\* positions.
C8_Original ==
    (BlocksBuilt /\ splitter.n_blocks >= 1 /\ n_samples >= splitter.n_blocks) =>
        \A k \in 1..Len(block_indices) :
            LET lo == n_samples \div splitter.n_blocks
                hi == IF n_samples % splitter.n_blocks = 0 THEN lo ELSE lo + 1
            IN  Len(block_indices[k]) \in {lo, hi}

\* C8: for N >= B >= 1 every block but the last has floor(N/B) positions
\* and the last block has floor(N/B) + (N mod B) positions.
C8_BlockSizes ==
    (BlocksBuilt /\ splitter.n_blocks >= 1 /\ n_samples >= splitter.n_blocks) =>
        \A k \in 1..Len(block_indices) :
            Len(block_indices[k]) =
                (n_samples \div splitter.n_blocks)
                + (IF k = splitter.n_blocks THEN n_samples % splitter.n_blocks ELSE 0)

C8_Witness ==
    /\ BlocksBuilt
    /\ splitter.n_blocks >= 2
    /\ n_samples >= splitter.n_blocks
    /\ Len(block_indices[splitter.n_blocks]) >= Len(block_indices[1]) + 2

\* C9: for 0 < K < B <= N a full iteration of split raises nothing and
\* yields exactly C(B, K) folds, whatever the windows and the metadata
\* (5 folds for N=100, B=5, K=1).
C9_FoldCount ==
    (pc \in {"ready", "yielded", "done", "error"}
       /\ 0 < splitter.n_test_blocks /\ n_samples >= splitter.n_blocks) =>
        /\ pc # "error"
        /\ Len(yielded) <= Binomial(splitter.n_blocks, splitter.n_test_blocks)
        /\ pc = "done" =>
              /\ Len(yielded) = Binomial(splitter.n_blocks, splitter.n_test_blocks)
              /\ (args = ScenarioA /\ n_samples = ScenarioASamples)
                   => Len(yielded) = 5

C9_Witness ==
    /\ pc = "done"
    /\ barrier_times.present
    /\ splitter.n_blocks = 4
    /\ splitter.n_test_blocks = 2
    /\ Len(yielded) = 6

\* C10: in every fold the test array is the union of the K chosen blocks
\* (its length the sum of their lengths), the candidate train array is the
\* union of the other B-K blocks, and the two together are [0, N); test
\* size 20 and candidate train size 80 for N=100, B=5, K=1.
C10_TestAndCandidate ==
    AtYield =>
        LET chosen == Range(indices)
            others == (0..(splitter.n_blocks - 1)) \ chosen
        IN  /\ Cardinality(chosen) = splitter.n_test_blocks
            /\ Range(test_idx) = BlockUnion(chosen)
            /\ Len(test_idx) = BlockSizeSum(chosen)
            /\ yielded[Len(yielded)].test = test_idx
            /\ Range(cand_idx) = BlockUnion(others)
            /\ Len(cand_idx) = BlockSizeSum(others)
            /\ Range(cand_idx) \cup Range(test_idx) = 0..(n_samples - 1)
            /\ Range(cand_idx) \cap Range(test_idx) = {}
            /\ (args = ScenarioA /\ n_samples = ScenarioASamples)
                 => (Len(test_idx) = 20 /\ Len(cand_idx) = 80)

C10_Witness ==
    /\ AtYield
    /\ splitter.n_test_blocks = 2
    /\ splitter.n_blocks = 4
    /\ Len(train_idx) < Len(cand_idx)
    /\ Len(train_idx) > 0
    /\ Len(test_idx) = 3

\* the tuple a comes before the tuple b in lexicographic order
LexLess(a, b) ==
    \E i \in 1..Len(a) :
        /\ i <= Len(b)
        /\ a[i] < b[i]
        /\ \A j \in 1..(i - 1) : a[j] = b[j]

\* 0 < n_test_blocks < n_blocks <= N for the constructed object
ValidSplit ==
    /\ pc \in {"ready", "yielded", "done", "error"}
    /\ 0 < splitter.n_test_blocks
    /\ splitter.n_test_blocks < splitter.n_blocks
    /\ splitter.n_blocks <= n_samples

\* C11: the folds come in lexicographic order of their test-block tuples,
\* each tuple strictly ascending; the first fold tests blocks 0..K-1 and the
\* last one blocks B-K..B-1; a second full iteration of split on the same
\* object and inputs yields the same folds in the same order.
C11_LexOrderAndRepeatable ==
    /\ \A k \in 1..Len(yielded) :
          LET t == yielded[k].test_blocks
          IN  /\ Len(t) = splitter.n_test_blocks
              /\ \A i \in 1..Len(t) : t[i] \in 0..(splitter.n_blocks - 1)
              /\ \A i \in 1..(Len(t) - 1) : t[i] < t[i + 1]
    /\ \A k \in 1..(Len(yielded) - 1) :
          LexLess(yielded[k].test_blocks, yielded[k + 1].test_blocks)
    /\ Len(yielded) >= 1 =>
          yielded[1].test_blocks = Arange(0, splitter.n_test_blocks)
    /\ (pc = "done" /\ Len(yielded) >= 1) =>
          yielded[Len(yielded)].test_blocks =
              Arange(splitter.n_blocks - splitter.n_test_blocks, splitter.n_blocks)
    /\ run = 2 =>
          /\ pc # "error"
          /\ Len(yielded) <= Len(prev_yielded)
          /\ \A k \in 1..Len(yielded) : yielded[k] = prev_yielded[k]
          /\ pc = "done" => yielded = prev_yielded

C11_Witness ==
    /\ run = 2
    /\ pc = "done"
    /\ Len(yielded) = 6
    /\ barrier_times.present
    /\ \E k \in 1..6 : yielded[k].train # <<>>

\* C12: with n_test_blocks >= n_blocks the constructor raises: no object
\* is made and nothing is ever computed or yielded.
C12_CtorRejectsTooManyTestBlocks ==
    (pc # "new" /\ args.n_test_blocks >= args.n_blocks) =>
        /\ pc = "ctor_error"
        /\ error = "ValueError"
        /\ splitter = NoObject
        /\ block_indices = <<>>
        /\ yielded = <<>>

C12_Witness ==
    /\ pc = "ctor_error"
    /\ args.n_test_blocks = args.n_blocks
    /\ args.n_blocks >= 2

\* C13 as stated: with n_test_blocks <= 0 and n_blocks larger the
\* constructor raises.
C13_CtorRejectsNonPositive ==
    (pc # "new" /\ args.n_test_blocks <= 0
       /\ args.n_blocks > args.n_test_blocks) =>
        pc = "ctor_error"

\* C14: with n_blocks <= 0 or N < n_blocks the iteration of split raises
\* before any fold is yielded, and no yielded fold has an empty test array.
C14_NoFoldFromEmptyBlocks ==
    /\ (pc \in {"ready", "yielded", "done", "error"}
           /\ (splitter.n_blocks <= 0 \/ n_samples < splitter.n_blocks)) =>
          /\ pc \in {"ready", "error"}
          /\ pc = "error" => error # "none"
          /\ yielded = <<>>
    /\ \A k \in 1..Len(yielded) : yielded[k].test # <<>>
    /\ AtYield => test_idx # <<>>

C14_Witness ==
    /\ pc = "error"
    /\ barrier_times.present
    /\ splitter.n_test_blocks >= 1
    /\ n_samples < splitter.n_blocks
    /\ n_samples >= 1

\* the candidate position p of a fold with test array test passes the purge
\* and the embargo
Survives(p, test) ==
    /\ IF barrier_times.present
       THEN \A q \in Range(test) : barrier_times.t1[p + 1] <= barrier_times.t0[q + 1]
       ELSE \A q \in Range(test) : p < q - splitter.purge_window
    /\ \/ \A q \in Range(test) : p < q
       \/ \A q \in Range(test) : p > q + splitter.embargo_window

\* C15: for 0 < K < B <= N a fold all of whose candidate train positions
\* are purged or embargoed is yielded with an empty train array and its
\* test array untouched; nothing raises and the iteration goes on to all
\* C(B, K) folds.
C15_EmptyTrainIsAFold ==
    ValidSplit =>
        /\ pc # "error"
        /\ pc = "done" =>
              Len(yielded) = Binomial(splitter.n_blocks, splitter.n_test_blocks)
        /\ \A k \in 1..Len(yielded) :
              LET chosen == Range(yielded[k].test_blocks)
                  others == (0..(splitter.n_blocks - 1)) \ chosen
              IN  /\ Range(yielded[k].test) = BlockUnion(chosen)
                  /\ Len(yielded[k].test) = BlockSizeSum(chosen)
                  /\ (\A p \in BlockUnion(others) : ~Survives(p, yielded[k].test))
                       => yielded[k].train = <<>>

C15_Witness ==
    /\ ValidSplit
    /\ pc = "done"
    /\ Len(yielded) >= 3
    /\ yielded[1].train = <<>>
    /\ yielded[2].train = <<>>
    /\ yielded[Len(yielded)].train # <<>>
    /\ splitter.purge_window > 0

\* C16: with barrier_times the purge is the metadata rule alone and the
\* folds of a whole iteration are those the next larger purge_window gives
\* (hence, step by step, those any other purge_window gives); without
\* barrier_times the purge is the position rule with purge_window and
\* nothing raises.
C16_PurgeModeByMetadata ==
    /\ (pc \in {"done", "error"} /\ barrier_times.present
           /\ splitter.n_blocks >= 1 /\ splitter.n_test_blocks >= 1
           /\ splitter.purge_window < MaxWindow) =>
          yielded = AllFolds([splitter EXCEPT !.purge_window = @ + 1],
                             n_samples, barrier_times)
    /\ (AtYield /\ barrier_times.present) =>
          Range(purged_idx) =
              {p \in Range(cand_idx) :
                  \A q \in Range(test_idx) :
                      barrier_times.t1[p + 1] <= barrier_times.t0[q + 1]}
    /\ (AtYield /\ ~barrier_times.present) =>
          Range(purged_idx) =
              {p \in Range(cand_idx) :
                  \A q \in Range(test_idx) : p < q - splitter.purge_window}
    /\ (ValidSplit /\ ~barrier_times.present) => pc # "error"

C16_Witness ==
    /\ pc = "done"
    /\ barrier_times.present
    /\ splitter.purge_window > 0
    /\ Len(yielded) >= 3
    /\ \E k \in 1..Len(yielded) :
          \E p \in Range(yielded[k].train) :
              \E q \in Range(yielded[k].test) : ~(p < q - splitter.purge_window)

\* the rolling splitter has been built with batch_unit >= 1, horizon >= 1
RollPositive ==
    /\ roll_pc \in {"ready", "yielded", "done", "error"}
    /\ roll_self.batch_unit >= 1
    /\ roll_self.horizon >= 1

\* C17: with batch_unit >= 1 and horizon >= 1 every fold of either rolling
\* splitter, in both directions, has train [s, s+batch_unit) and test
\* [s+batch_unit, s+batch_unit+horizon) for some s with 0 <= s and
\* s+batch_unit+horizon <= N.
C17_RollingWindowShape ==
    RollPositive =>
        \A k \in 1..Len(roll_yielded) :
            \E s \in 0..roll_n :
                /\ s + roll_self.batch_unit + roll_self.horizon <= roll_n
                /\ roll_yielded[k].train = Arange(s, s + roll_self.batch_unit)
                /\ roll_yielded[k].test =
                      Arange(s + roll_self.batch_unit,
                             s + roll_self.batch_unit + roll_self.horizon)

C17_Witness ==
    /\ RollPositive
    /\ roll_kind = "index"
    /\ roll_self.latest_first
    /\ roll_pc = "done"
    /\ Len(roll_yielded) = 2
    /\ roll_yielded[2].train[1] = 0

\* the train start of the k-th fold when the first fold starts at first and
\* consecutive folds are horizon apart
StartByHorizon(first, k) ==
    IF roll_self.latest_first THEN first - (k - 1) * roll_self.horizon
    ELSE first + (k - 1) * roll_self.horizon

\* C18 as stated: the index-yielding rolling splitter moves the windows by
\* exactly horizon between consecutive folds, from a first fold whose test
\* ends at N (latest_first) or whose train starts at 0, and stops only when
\* no full window fits; N=210, batch_unit=200, horizon=5, latest_first
\* gives train [5,205) test [205,210), then train [0,200) test [200,205).
C18_IndexSlidesByHorizon ==
    (RollPositive /\ roll_kind = "index") =>
        LET W == roll_self.batch_unit + roll_self.horizon
            first == IF roll_self.latest_first THEN roll_n - W ELSE 0
        IN  /\ \A k \in 1..Len(roll_yielded) :
                  roll_yielded[k].train =
                      Arange(StartByHorizon(first, k),
                             StartByHorizon(first, k) + roll_self.batch_unit)
            /\ (roll_pc = "done" /\ roll_n >= W) =>
                  LET after == StartByHorizon(first, Len(roll_yielded) + 1)
                  IN  after < 0 \/ after + W > roll_n
            /\ (roll_pc = "done" /\ roll_self = ScenarioD
                   /\ roll_n = ScenarioDSamples) =>
                  /\ Len(roll_yielded) = 2
                  /\ roll_yielded[1].train = Arange(5, 205)
                  /\ roll_yielded[1].test = Arange(205, 210)
                  /\ roll_yielded[2].train = Arange(0, 200)
                  /\ roll_yielded[2].test = Arange(200, 205)

\* C19: data_splitter's rolling splitter, for horizon >= 1 and
\* N >= W = batch_unit + horizon, yields the folds of the train starts
\* N-W, N-W-horizon, ... >= 0 (latest_first) or 0, horizon, ... <= N-W,
\* numbered 1, 2, 3, ...: floor((N-W)/horizon) + 1 folds, none raising.
\* N=210, batch_unit=200, horizon=5, latest_first gives fold 1 train
\* [5,205) test [205,210) and fold 2 train [0,200) test [200,205).
C19_FrameSlidesByHorizon ==
    (roll_kind = "frame" /\ roll_pc \in {"yielded", "done", "error"}
       /\ roll_self.horizon >= 1
       /\ roll_n >= roll_self.batch_unit + roll_self.horizon) =>
        LET W == roll_self.batch_unit + roll_self.horizon
            first == IF roll_self.latest_first THEN roll_n - W ELSE 0
        IN  /\ roll_pc # "error"
            /\ \A k \in 1..Len(roll_yielded) :
                  LET st == StartByHorizon(first, k)
                  IN  /\ roll_yielded[k].fold_idx = k
                      /\ st >= 0
                      /\ st <= roll_n - W
                      /\ roll_yielded[k].train = Arange(st, st + roll_self.batch_unit)
                      /\ roll_yielded[k].test = Arange(st + roll_self.batch_unit, st + W)
            /\ Len(roll_yielded) <= ((roll_n - W) \div roll_self.horizon) + 1
            /\ roll_pc = "done" =>
                  Len(roll_yielded) = ((roll_n - W) \div roll_self.horizon) + 1
            /\ (roll_pc = "done" /\ roll_self = ScenarioD
                   /\ roll_n = ScenarioDSamples) =>
                  /\ Len(roll_yielded) = 2
                  /\ roll_yielded[1].train = Arange(5, 205)
                  /\ roll_yielded[1].test = Arange(205, 210)
                  /\ roll_yielded[2].train = Arange(0, 200)
                  /\ roll_yielded[2].test = Arange(200, 205)

C19_Witness ==
    /\ roll_kind = "frame"
    /\ roll_pc = "done"
    /\ roll_self.latest_first
    /\ roll_self.horizon = 2
    /\ roll_self.batch_unit = 3
    /\ Len(roll_yielded) = 2
    /\ roll_yielded[2].train = Arange(0, 3)

\* C20 as stated: with N < batch_unit + horizon the iteration of split of
\* either rolling splitter raises; it never ends quietly with no fold.
C20_TooSmallRaises ==
    (roll_pc \in {"yielded", "done", "error"}
       /\ roll_n < roll_self.batch_unit + roll_self.horizon) =>
        /\ roll_pc = "error"
        /\ roll_error # "none"

\* C21 as stated: a constructor given a non-positive size (n_blocks <= 0
\* for CPCVSplitter, batch_unit <= 0 or horizon <= 0 for either rolling
\* splitter) raises; no object is made.
C21_CtorRejectsNonPositiveSizes ==
    /\ (pc \in {"ready", "yielded", "done", "error", "ctor_error"}
           /\ args.n_blocks <= 0) =>
          pc = "ctor_error"
    /\ (roll_pc \in {"ready", "yielded", "done", "error", "ctor_error"}
           /\ (roll_args.batch_unit <= 0 \/ roll_args.horizon <= 0)) =>
          /\ roll_pc = "ctor_error"
          /\ roll_self = NoRollObject

\* C22: on a SimpleNN on which no fit and no load has completed (exactly
\* the objects with is_trained False) predict, predict_proba and save raise
\* the not-trained RuntimeError and change neither the object nor the
\* files; once a fit or a load has completed these calls do not raise it.
C22_UntrainedCallsRaise ==
    /\ [](\A i \in DOMAIN nn : nn[i].is_trained <=> i \in completed)
    /\ [][nn_ret'.op \in {"predict", "predict_proba", "save"} =>
             IF nn_ret'.obj \in completed
             THEN nn_ret'.error # "RuntimeError: untrained"
             ELSE /\ nn_ret'.error = "RuntimeError: untrained"
                  /\ nn_ret'.value = <<>>
                  /\ nn' = nn
                  /\ disk' = disk
                  /\ completed' = completed]_vars

C22_Witness ==
    /\ nn_ret.op = "predict"
    /\ nn_ret.error = "RuntimeError: untrained"
    /\ nn[nn_ret.obj].model.built
    /\ ~nn[nn_ret.obj].is_trained
    /\ \E i \in Models : i \in completed /\ ~disk["models/test_simple_nn.pth"].exists

\* C23: save writes the config and the state_dict of the object; a load of
\* that file completes on any object, which is then trained, has the config
\* and the parameters of the file, and predicts on every input what every
\* trained model with that config and those parameters (the model that was
\* saved) predicts.
C23_SaveLoadRoundTrip ==
    /\ (nn_ret.op = "save" /\ nn_ret.error = "none") =>
          disk[nn_ret.path] = Checkpoint(nn[nn_ret.obj])
    /\ nn_ret.op = "load" =>
          (nn_ret.error = "none" <=> disk[nn_ret.path].exists)
    /\ (nn_ret.op = "load" /\ nn_ret.error = "none") =>
          LET j == nn_ret.obj
              checkpoint == disk[nn_ret.path]
          IN  /\ nn[j].is_trained
              /\ nn[j].config = checkpoint.config
              /\ state_dict(nn[j].model) = checkpoint.state
              /\ \A i \in Models :
                    (nn[i].is_trained /\ Checkpoint(nn[i]) = checkpoint) =>
                        \A X \in TestInputs :
                            /\ predict(nn[j], X).error = predict(nn[i], X).error
                            /\ predict(nn[j], X).value = predict(nn[i], X).value

C23_Witness ==
    /\ nn_calls = 3
    /\ nn_ret.op = "load"
    /\ nn_ret.error = "none"
    /\ nn_ret.obj = 2
    /\ nn[1].is_trained
    /\ Checkpoint(nn[1]) = disk[nn_ret.path]
    /\ nn[1].model.w = 1
    /\ nn[1].config.hidden_dims = <<2>>
    /\ predict(nn[2], [n_features |-> nn[2].model.input_dim, x |-> 1]).value = <<1>>

\* C30: is_trained implies that the network is built; is_trained turns True
\* only in a fit or a load of that object that completes, and never turns
\* False again, whatever the calls and however they end.
C30_TrainedImpliesBuilt ==
    /\ [](\A i \in DOMAIN nn : nn[i].is_trained => nn[i].model.built)
    /\ [][\A i \in DOMAIN nn :
             /\ nn[i].is_trained => nn'[i].is_trained
             /\ nn[i].model.built => nn'[i].model.built
             /\ (~nn[i].is_trained /\ nn'[i].is_trained) =>
                   /\ nn_ret'.obj = i
                   /\ nn_ret'.op \in {"fit", "load"}
                   /\ nn_ret'.error = "none"]_vars

C30_Witness ==
    /\ nn_ret.op = "fit"
    /\ nn_ret.error = "IndexError"
    /\ nn[nn_ret.obj].is_trained
    /\ \E i \in Models : nn[i].model.built /\ ~nn[i].is_trained

\* t0 grows strictly with the position (t1 >= t0 in every table)
T0Increasing ==
    /\ barrier_times.present
    /\ \A i \in 1..(Len(barrier_times.t0) - 1) :
          barrier_times.t0[i] < barrier_times.t0[i + 1]
    /\ \A i \in 1..Len(barrier_times.t0) :
          barrier_times.t1[i] >= barrier_times.t0[i]

\* C24: in a yielded fold every train position is below min(test) - in
\* fallback mode with purge_window >= 0 even below min(test) - purge_window,
\* with metadata whenever t0 grows strictly with the position and
\* t1 >= t0; so only the blocks before the first test block contribute, and
\* a fold that tests block 0 has an empty train array.
C24_TrainBeforeTest ==
    AtYield =>
        /\ (~barrier_times.present /\ splitter.purge_window >= 0) =>
              \A p \in Range(train_idx) :
                  p < SeqMin(test_idx) - splitter.purge_window
        /\ ((~barrier_times.present /\ splitter.purge_window >= 0)
               \/ T0Increasing) =>
              /\ \A p \in Range(train_idx) : p < SeqMin(test_idx)
              /\ Range(train_idx) \subseteq
                    BlockUnion({b \in 0..(splitter.n_blocks - 1) : b < indices[1]})
              /\ 0 \in Range(indices) => train_idx = <<>>
              /\ yielded[Len(yielded)].train = train_idx

C24_Witness ==
    /\ AtYield
    /\ T0Increasing
    /\ indices = <<1, 3>>
    /\ train_idx # <<>>
    /\ \E p \in Range(cand_idx) : p > SeqMin(test_idx) /\ p < SeqMax(test_idx)
    /\ splitter.embargo_window < 0

\* C25: without barrier_times and with purge_window >= 0 and
\* embargo_window >= 0 the embargo of split removes nothing: the train
\* array of a fold is the purge result, and the folds of a whole iteration
\* are those the next larger embargo_window gives (hence, step by step,
\* those any other embargo_window >= 0 gives).
C25_EmbargoRemovesNothing ==
    (~barrier_times.present /\ splitter.purge_window >= 0
        /\ splitter.embargo_window >= 0) =>
        /\ AtYield => train_idx = purged_idx
        /\ (pc \in {"done", "error"} /\ splitter.n_blocks >= 1
               /\ splitter.n_test_blocks >= 1) =>
              yielded = AllFolds([splitter EXCEPT !.embargo_window = @ + 1],
                                 n_samples, barrier_times)

C25_Witness ==
    /\ pc = "done"
    /\ ~barrier_times.present
    /\ splitter.purge_window = 0
    /\ splitter.embargo_window = 0
    /\ Len(yielded) = 6
    /\ yielded[6].train # <<>>
    /\ n_samples = MaxN

\* C26: purge and embargo commute.  For a non-empty test array, embargoing
\* the result of either purge gives what purging the result of the embargo
\* gives, for every window; so the train array of a yielded fold is also
\* what embargo-then-purge makes of the fold's candidates.
C26_PurgeEmbargoCommute ==
    /\ AtYield =>
          LET e == apply_embargo(cand_idx, test_idx, splitter.embargo_window)
          IN  /\ e.ok
              /\ Purge(splitter, e.value, test_idx, barrier_times)
                    = Returned(train_idx)
    /\ (f_op = "apply_embargo" /\ f_test # <<>>) =>
          /\ \A pw \in Windows :
                apply_time_based_purging(f_out.value, f_test, pw) =
                    apply_embargo(
                        apply_time_based_purging(f_train, f_test, pw).value,
                        f_test, f_window)
          /\ f_barrier.present =>
                apply_purging(f_out.value, f_test, f_barrier) =
                    apply_embargo(apply_purging(f_train, f_test, f_barrier).value,
                                  f_test, f_window)
    /\ (f_op = "apply_time_based_purging" /\ f_test # <<>>) =>
          \A ew \in Windows :
              apply_embargo(f_out.value, f_test, ew) =
                  apply_time_based_purging(
                      apply_embargo(f_train, f_test, ew).value, f_test, f_window)
    /\ (f_op = "apply_purging" /\ f_test # <<>>) =>
          \A ew \in Windows :
              apply_embargo(f_out.value, f_test, ew) =
                  apply_purging(apply_embargo(f_train, f_test, ew).value,
                                f_test, f_barrier)

C26_Witness ==
    /\ AtYield
    /\ barrier_times.present
    /\ train_idx # <<>>
    /\ \E p \in Range(cand_idx) :
          /\ p \notin Range(purged_idx)
          /\ p \in Range(apply_embargo(cand_idx, test_idx,
                                       splitter.embargo_window).value)
    /\ \E p \in Range(purged_idx) : p \notin Range(train_idx)

\* C27: after a full iteration with 0 < K < B <= N every position of
\* [0, N) is in the test array of exactly C(B-1, K-1) folds, every block is
\* a test block of exactly C(B-1, K-1) folds, and the test arrays together
\* cover [0, N).
C27_TestCoverage ==
    (ValidSplit /\ pc = "done") =>
        LET times == Binomial(splitter.n_blocks - 1, splitter.n_test_blocks - 1)
            folds == 1..Len(yielded)
        IN  /\ \A p \in 0..(n_samples - 1) :
                  Cardinality({k \in folds : p \in Range(yielded[k].test)}) = times
            /\ \A b \in 0..(splitter.n_blocks - 1) :
                  Cardinality({k \in folds : b \in Range(yielded[k].test_blocks)})
                      = times
            /\ UNION {Range(yielded[k].test) : k \in folds} = 0..(n_samples - 1)

C27_Witness ==
    /\ ValidSplit
    /\ pc = "done"
    /\ ~barrier_times.present
    /\ splitter.n_blocks = 4
    /\ splitter.n_test_blocks = 2
    /\ n_samples = 5
    /\ Cardinality({k \in 1..Len(yielded) : 4 \in Range(yielded[k].test)}) = 3

\* the array a is strictly ascending
StrictlyAscending(a) == \A i \in 1..(Len(a) - 1) : a[i] < a[i + 1]

\* the array out is what is left of the array a when the occurrences of
\* some values are deleted: the rest keeps its order and its multiplicity
KeepsOrder(out, a) == out = SelectSeq(a, LAMBDA p : p \in Range(out))

\* C28: the train and test arrays of every yielded fold are strictly
\* ascending (so without duplicates) and hold positions of [0, N) only;
\* each of the three filters returns the retained positions in the order
\* they had in its input.
C28_AscendingArrays ==
    /\ AtYield =>
          /\ StrictlyAscending(test_idx)
          /\ StrictlyAscending(cand_idx)
          /\ StrictlyAscending(purged_idx)
          /\ StrictlyAscending(train_idx)
          /\ Range(test_idx) \subseteq 0..(n_samples - 1)
          /\ Range(train_idx) \subseteq 0..(n_samples - 1)
          /\ KeepsOrder(purged_idx, cand_idx)
          /\ KeepsOrder(train_idx, purged_idx)
          /\ yielded[Len(yielded)].train = train_idx
          /\ yielded[Len(yielded)].test = test_idx
    /\ (f_op \in {"apply_purging", "apply_time_based_purging", "apply_embargo"}
           /\ f_out.ok) =>
          KeepsOrder(f_out.value, f_train)

C28_Witness ==
    /\ f_op = "apply_embargo"
    /\ f_out.ok
    /\ Len(f_train) = 2
    /\ f_train[1] > f_train[2]
    /\ f_out.value = f_train
    /\ f_window > 0

\* the index-yielding rolling splitter has been built with
\* batch_unit + horizon >= 1
IndexWindowed ==
    /\ roll_kind = "index"
    /\ roll_pc \in {"ready", "yielded", "done", "error"}
    /\ roll_self.batch_unit + roll_self.horizon >= 1

\* the positions of a fold
FoldPositions(f) == Range(f.train) \cup Range(f.test)

\* C29: for batch_unit >= 0, horizon >= 0, batch_unit + horizon >= 1 and
\* any N >= 0 the iteration of the index-yielding rolling splitter, in both
\* directions, ends, without an error, after exactly
\* floor(N / (batch_unit + horizon)) folds, and no position is in two folds
\* or twice in one fold.
C29_IndexTerminates ==
    /\ [](IndexWindowed =>
            LET W == roll_self.batch_unit + roll_self.horizon
            IN  /\ roll_pc # "error"
                /\ Len(roll_yielded) <= roll_n \div W
                /\ roll_pc = "done" => Len(roll_yielded) = roll_n \div W
                /\ \A k \in 1..Len(roll_yielded) :
                      /\ Len(roll_yielded[k].train) + Len(roll_yielded[k].test) = W
                      /\ Cardinality(FoldPositions(roll_yielded[k])) = W
                /\ \A j \in 1..Len(roll_yielded) : \A k \in 1..Len(roll_yielded) :
                      j # k => FoldPositions(roll_yielded[j])
                                  \cap FoldPositions(roll_yielded[k]) = {})
    /\ (roll_kind = "index" /\ roll_pc = "new"
           /\ roll_args.batch_unit + roll_args.horizon >= 1)
         ~> (roll_pc = "done")

C29_Witness ==
    /\ IndexWindowed
    /\ roll_pc = "done"
    /\ ~roll_self.latest_first
    /\ roll_self.batch_unit = 1
    /\ roll_self.horizon = 1
    /\ roll_n = 7
    /\ Len(roll_yielded) = 3

====
